---- MODULE Spec2Model ----
(***************************************************************************)
(* A model of pysol/solar_geom.py: the Solar_Geometry object, its          *)
(* computation methods and the aggregate driver calculate_all_attributes.  *)
(*                                                                         *)
(* Units.  Python floats are modelled by scaled integers:                  *)
(*   angles           1e-4 degree (40.8665 degrees is 408665)              *)
(*   durations        milliseconds (E, the longitude correction)           *)
(*   time of day      milliseconds since local midnight                    *)
(*   UTC offsets      seconds                                              *)
(*   air mass, cos    1e-4                                                 *)
(* A date is (year, yday): tm_yday is what the code reads from a date.     *)
(* The trigonometric series of Spencer (1971) are tabulated per day number *)
(* from the source's own expressions; math.cos/math.sin/math.acos are      *)
(* tabulated at whole degrees.                                             *)
(***************************************************************************)
EXTENDS Integers, Sequences, FiniteSets, TLC

VARIABLES
    alive,      \* a Solar_Geometry object has been constructed
    attrs,      \* the object's __dict__: configuration and snapshot values
    has,        \* the snapshot attributes that exist on the object
    pc,         \* position of calculate_all_attributes: "idle" or the stage about to run
    pass,       \* outcome of the latest pass: "none", "running", "done", "failed"
    passes,     \* number of passes started on the object
    order,      \* snapshot fields in the order the current pass wrote them
    earlyRead,  \* the current pass read a snapshot field it had not written yet
    op,         \* the operation the caller invoked last
    arg,        \* the arguments of that invocation
    ret         \* what the caller got: a value or an exception

vars == <<alive, attrs, has, pc, pass, passes, order, earlyRead, op, arg, ret>>

----------------------------------------------------------------------------
(* Bounds of the model *)

\* passes of calculate_all_attributes started on one object
MaxPasses == 2

----------------------------------------------------------------------------
(* Program constants *)

G_sc_default == 1367
latitude_default == 408665
longitude_default == 1240828

MsPerDay == 86400000
MsNoon == 43200000
\* 4 minutes per degree, line 123: 240000 ms per degree, 24 ms per 1e-4 degree
MsPerDeg4 == 24

----------------------------------------------------------------------------
(* Spencer (1971) series, evaluated by the source's expressions at the day  *)
(* numbers 1..366 (366 is what tm_yday gives on 31 December of a leap year) *)

\* calculate_E, lines 83-89: minutes * 60000, B in radians
ETab ==
    <<-174265, -201099, -227677, -253975, -279968, -305632, -330944, -355880, -380417, -404534,
      -428208, -451417, -474142, -496362, -518057, -539208, -559797, -579806, -599218, -618016,
      -636185, -653709, -670575, -686768, -702277, -717088, -731191, -744576, -757232, -769151,
      -780324, -790746, -800409, -809307, -817437, -824795, -831377, -837182, -842208, -846455,
      -849924, -852616, -854533, -855678, -856056, -855670, -854527, -852633, -849996, -846622,
      -842522, -837704, -832179, -825959, -819054, -811478, -803244, -794366, -784858, -774737,
      -764016, -752715, -740848, -728435, -715493, -702041, -688099, -673686, -658823, -643530,
      -627828, -611739, -595284, -578485, -561366, -543949, -526256, -508311, -490137, -471758,
      -453197, -434478, -415624, -396661, -377611, -358499, -339348, -320182, -301024, -281899,
      -262830, -243839, -224950, -206185, -187568, -169120, -150862, -132818, -115007, -97451,
      -80170, -63184, -46512, -30173, -14186, 1432, 16662, 31489, 45895, 59866,
      73387, 86443, 99020, 111105, 122687, 133754, 144294, 154299, 163757, 172661,
      181003, 188776, 195974, 202590, 208621, 214062, 218910, 223163, 226819, 229879,
      232341, 234206, 235477, 236156, 236246, 235751, 234677, 233028, 230811, 228034,
      224704, 220830, 216421, 211488, 206041, 200092, 193653, 186736, 179356, 171526,
      163261, 154577, 145488, 136012, 126165, 115965, 105430, 94578, 83428, 71999,
      60310, 48382, 36234, 23888, 11364, -1317, -14133, -27062, -40084, -53177,
      -66317, -79484, -92654, -105807, -118920, -131970, -144935, -157794, -170525, -183105,
      -195513, -207729, -219729, -231495, -243004, -254237, -265173, -275792, -286076, -296006,
      -305562, -314727, -323484, -331814, -339702, -347131, -354086, -360553, -366516, -371962,
      -376878, -381251, -385070, -388325, -391003, -393097, -394596, -395493, -395781, -395452,
      -394501, -392923, -390713, -387868, -384386, -380264, -375501, -370098, -364054, -357371,
      -350051, -342098, -333515, -324306, -314477, -304035, -292987, -281340, -269102, -256284,
      -242896, -228948, -214452, -199421, -183867, -167805, -151249, -134213, -116715, -98771,
      -80396, -61611, -42431, -22877, -2968, 17276, 37836, 58690, 79816, 101193,
      122800, 144612, 166609, 188765, 211059, 233465, 255961, 278522, 301123, 323740,
      346349, 368924, 391441, 413874, 436200, 458392, 480427, 502279, 523924, 545337,
      566494, 587370, 607942, 628186, 648079, 667597, 686717, 705417, 723675, 741470,
      758780, 775583, 791861, 807593, 822759, 837342, 851323, 864684, 877408, 889480,
      900884, 911604, 921626, 930938, 939525, 947376, 954481, 960827, 966406, 971208,
      975226, 978452, 980880, 982503, 983318, 983320, 982506, 980875, 978424, 975153,
      971063, 966154, 960430, 953893, 946546, 938395, 929446, 919704, 909177, 897874,
      885802, 872973, 859396, 845083, 830046, 814298, 797854, 780726, 762932, 744486,
      725405, 705706, 685408, 664529, 643089, 621106, 598602, 575598, 552114, 528174,
      503799, 479013, 453838, 428299, 402420, 376225, 349740, 322988, 295997, 268790,
      241395, 213838, 186144, 158339, 130451, 102506, 74531, 46551, 18594, -9315,
      -37147, -64879, -92482, -119931, -147201, -174265>>

\* calculate_declination_degrees, lines 136-144: degrees * 1e4
DeclTab ==
    <<-230586, -229793, -228924, -227979, -226959, -225864, -224694, -223450, -222133, -220743,
      -219282, -217748, -216144, -214470, -212727, -210915, -209036, -207090, -205078, -203001,
      -200859, -198655, -196388, -194060, -191672, -189224, -186718, -184155, -181536, -178862,
      -176134, -173353, -170521, -167638, -164706, -161725, -158697, -155623, -152505, -149343,
      -146139, -142893, -139608, -136284, -132922, -129523, -126090, -122622, -119122, -115590,
      -112028, -108437, -104817, -101171, -97498, -93802, -90082, -86340, -82577, -78794,
      -74992, -71172, -67336, -63485, -59620, -55741, -51850, -47949, -44037, -40117,
      -36189, -32254, -28313, -24368, -20420, -16469, -12516, -8563, -4610, -659,
      3289, 7234, 11175, 15110, 19039, 22960, 26873, 30777, 34671, 38553,
      42423, 46280, 50123, 53951, 57763, 61559, 65336, 69095, 72834, 76553,
      80251, 83926, 87578, 91205, 94808, 98384, 101934, 105456, 108949, 112412,
      115845, 119246, 122615, 125951, 129252, 132519, 135749, 138943, 142098, 145216,
      148293, 151330, 154326, 157280, 160190, 163056, 165878, 168654, 171384, 174066,
      176700, 179284, 181819, 184303, 186736, 189117, 191444, 193718, 195936, 198100,
      200208, 202258, 204251, 206186, 208062, 209879, 211635, 213331, 214965, 216537,
      218046, 219492, 220875, 222194, 223448, 224636, 225760, 226817, 227808, 228732,
      229589, 230379, 231101, 231756, 232342, 232859, 233308, 233689, 234000, 234243,
      234416, 234520, 234556, 234522, 234419, 234247, 234006, 233696, 233318, 232871,
      232355, 231772, 231121, 230402, 229616, 228763, 227843, 226857, 225805, 224688,
      223506, 222260, 220949, 219575, 218138, 216639, 215078, 213456, 211773, 210030,
      208228, 206367, 204448, 202472, 200440, 198351, 196208, 194010, 191759, 189455,
      187099, 184691, 182234, 179727, 177171, 174567, 171916, 169218, 166476, 163689,
      160858, 157984, 155069, 152112, 149116, 146080, 143005, 139893, 136744, 133560,
      130341, 127087, 123801, 120482, 117132, 113751, 110340, 106901, 103434, 99941,
      96420, 92875, 89306, 85712, 82097, 78459, 74801, 71122, 67425, 63709,
      59976, 56226, 52461, 48681, 44887, 41080, 37261, 33430, 29590, 25739,
      21880, 18014, 14140, 10261, 6376, 2488, -1404, -5298, -9193, -13089,
      -16984, -20878, -24769, -28657, -32541, -36419, -40291, -44156, -48012, -51859,
      -55696, -59522, -63335, -67134, -70920, -74689, -78442, -82177, -85894, -89591,
      -93266, -96920, -100551, -104157, -107737, -111292, -114818, -118316, -121783, -125219,
      -128623, -131994, -135330, -138630, -141892, -145117, -148303, -151447, -154550, -157611,
      -160627, -163598, -166522, -169399, -172227, -175006, -177733, -180409, -183031, -185599,
      -188112, -190569, -192967, -195308, -197589, -199809, -201968, -204064, -206097, -208065,
      -209968, -211806, -213576, -215278, -216911, -218475, -219969, -221393, -222744, -224023,
      -225230, -226363, -227422, -228406, -229316, -230150, -230908, -231589, -232194, -232722,
      -233173, -233546, -233842, -234059, -234199, -234260, -234244, -234149, -233976, -233725,
      -233396, -232989, -232504, -231942, -231303, -230586>>

\* calculate_G_on_W_m2, lines 69-74: the multiplier * 1e6; the source passes
\* B in degrees to math.cos and math.sin, and so does this table
MultTab ==
    <<1035050, 1019850, 987350, 967335, 975486, 1005615, 1032099, 1028993, 999420, 971828,
      969099, 993190, 1024741, 1034208, 1011855, 979957, 966609, 981931, 1014131, 1034669,
      1022936, 990843, 968269, 973188, 1001852, 1030309, 1031025, 1003196, 973921, 967921,
      989615, 1021827, 1034865, 1015407, 982991, 966671, 978986, 1010537, 1033848, 1025749,
      994471, 969566, 971207, 998093, 1028142, 1032668, 1006960, 976326, 967110, 986187,
      1018657, 1035078, 1018789, 986245, 967110, 976302, 1006839, 1032597, 1028250, 998191,
      971215, 969561, 994384, 1025631, 1033898, 1010665, 979019, 966671, 982944, 1015274,
      1034843, 1021956, 989685, 967923, 973905, 1003083, 1030937, 1030402, 1001961, 973202,
      968266, 990769, 1022809, 1034699, 1014262, 981973, 966609, 979921, 1011725, 1034164,
      1024863, 993273, 969103, 971818, 999317, 1028890, 1032175, 1005734, 975507, 967334,
      987288, 1019718, 1035057, 1017705, 985159, 966925, 977149, 1008056, 1033052, 1027470,
      996968, 970639, 970061, 995587, 1026487, 1033543, 1009464, 978109, 966773, 983981,
      1016400, 1034969, 1020947, 988543, 967617, 974655, 1004314, 1031523, 1029739, 1000727,
      972517, 968650, 991937, 1023763, 1034486, 1013102, 980981, 966588, 980883, 1012900,
      1034434, 1023944, 992087, 968678, 972465, 1000546, 1029599, 1031639, 1004504, 974720,
      967598, 988408, 1020755, 1034989, 1016600, 984095, 966781, 978025, 1009265, 1033462,
      1026653, 995752, 970098, 970598, 996800, 1027310, 1033142, 1008253, 977227, 966915,
      985040, 1017507, 1035047, 1019913, 987418, 967350, 975438, 1005541, 1032067, 1029037,
      999494, 971866, 969072, 993118, 1024686, 1034225, 1011926, 980014, 966607, 981870,
      1014061, 1034657, 1022994, 990914, 968291, 973146, 1001777, 1030270, 1031061, 1003271,
      973966, 967902, 989545, 1021767, 1034874, 1015475, 983053, 966676, 978931, 1010465,
      1033827, 1025802, 994543, 969595, 971171, 998019, 1028096, 1032696, 1007034, 976376,
      967097, 986121, 1018592, 1035077, 1018854, 986311, 967123, 976252, 1006765, 1032568,
      1028296, 998266, 971251, 969532, 994311, 1025578, 1033918, 1010737, 979075, 966666,
      982882, 1015206, 1034834, 1022016, 989755, 967943, 973861, 1003009, 1030900, 1030441,
      1002036, 973244, 968244, 990698, 1022751, 1034710, 1014332, 982034, 966612, 979864,
      1011654, 1034146, 1024917, 993345, 969130, 971780, 999243, 1028846, 1032206, 1005809,
      975556, 967319, 987221, 1019655, 1035060, 1017771, 985224, 966935, 977097, 1007982,
      1033026, 1027518, 997042, 970672, 970030, 995514, 1026436, 1033566, 1009537, 978163,
      966766, 983918, 1016333, 1034962, 1021009, 988611, 967634, 974609, 1004239, 1031489,
      1029780, 1000801, 972557, 968626, 991866, 1023706, 1034500, 1013172, 981040, 966588,
      980824, 1012830, 1034419, 1024000, 992158, 968702, 972425, 1000472, 1029558, 1031673,
      1004579, 974767, 967581, 988340, 1020693, 1034995, 1016668, 984159, 966788, 977972,
      1009192, 1033439, 1026703, 995825, 970130, 970564, 996726, 1027261, 1033167, 1008326,
      977280, 966905, 984976, 1017440, 1035043, 1019976, 987485, 967365, 975390, 1005467,
      1032036, 1029080, 999569, 971905, 969046, 993047, 1024631, 1034242, 1011997, 980072,
      966604, 981810, 1013991, 1034645, 1023053, 990984>>

\* math.cos(math.radians(d)) * 1e4 for d = 0..90
CosTab ==
    <<10000, 9998, 9994, 9986, 9976, 9962, 9945, 9925, 9903, 9877,
      9848, 9816, 9781, 9744, 9703, 9659, 9613, 9563, 9511, 9455,
      9397, 9336, 9272, 9205, 9135, 9063, 8988, 8910, 8829, 8746,
      8660, 8572, 8480, 8387, 8290, 8192, 8090, 7986, 7880, 7771,
      7660, 7547, 7431, 7314, 7193, 7071, 6947, 6820, 6691, 6561,
      6428, 6293, 6157, 6018, 5878, 5736, 5592, 5446, 5299, 5150,
      5000, 4848, 4695, 4540, 4384, 4226, 4067, 3907, 3746, 3584,
      3420, 3256, 3090, 2924, 2756, 2588, 2419, 2250, 2079, 1908,
      1736, 1564, 1392, 1219, 1045, 872, 698, 523, 349, 175,
      0>>

\* 0.5057 * (96.080 - z) ** -1.634, times 1e4, for z = 70..95 (line 201)
PowTab ==
    <<25, 26, 28, 30, 32, 35, 38, 41, 45, 49,
      54, 60, 67, 76, 86, 99, 116, 138, 166, 207,
      265, 355, 508, 805, 1528, 4459>>

\* math.exp(-0.0001184 * site_altitude_m) * 1e4 at 0, 1000 and 2000 m (line 199)
ExpTab == <<10000, 8883, 7891>>

----------------------------------------------------------------------------
(* Values *)

Abs(x) == IF x < 0 THEN -x ELSE x

\* A timestamp, as text (form "text": what the caller writes) or as a
\* datetime object (form "datetime").  ok: the text is a date dateutil can
\* parse.  zone: the text's (the object's tzinfo's) time-zone part, "none",
\* "utc" (Z, UTC: tzutc) or "offset" (+HH:MM: tzoffset), off its seconds.
NoStamp ==
    [form |-> "none", ok |-> FALSE, year |-> 0, yday |-> 0, ms |-> 0,
     zone |-> "none", off |-> 0]

Text(year, yday, ms, zone, off) ==
    [form |-> "text", ok |-> TRUE, year |-> year, yday |-> yday, ms |-> ms,
     zone |-> zone, off |-> off]

Garbage == [NoStamp EXCEPT !.form = "text"]

\* What a call gives its caller: a number, a timestamp or an exception
\* (warn: warnings.warn fired on the way)
NoRet ==
    [st |-> "none", exc |-> "", msg |-> "", num |-> 0, time |-> NoStamp, warn |-> FALSE]
OkNum(v) == [NoRet EXCEPT !.st = "ok", !.num = v]
OkTime(t) == [NoRet EXCEPT !.st = "ok", !.time = t]
Raise(exc, msg) == [NoRet EXCEPT !.st = "raise", !.exc = exc, !.msg = msg]

\* An optional argument: None or a value
None == [given |-> FALSE, v |-> 0, t |-> NoStamp]
Num(v) == [given |-> TRUE, v |-> v, t |-> NoStamp]
Stamp(t) == [given |-> TRUE, v |-> 0, t |-> t]

----------------------------------------------------------------------------
(* The calendar and datetime arithmetic *)

IsLeap(year) == (year % 4 = 0 /\ year % 100 # 0) \/ year % 400 = 0
YearLen(year) == IF IsLeap(year) THEN 366 ELSE 365

RECURSIVE NormDate(_, _)
NormDate(year, yday) ==
    IF yday < 1 THEN NormDate(year - 1, yday + YearLen(year - 1))
    ELSE IF yday > YearLen(year) THEN NormDate(year + 1, yday - YearLen(year))
    ELSE <<year, yday>>

\* datetime + timedelta (lines 124, 240): the date rolls over with the time
AddMs(d, delta) ==
    LET total == d.ms + delta
        days  == total \div MsPerDay
        date  == NormDate(d.year, d.yday + days)
    IN  [d EXCEPT !.year = date[1], !.yday = date[2], !.ms = total % MsPerDay]

\* dt.datetime(year, month, day, hour=12, ..., tzinfo=x.tzinfo), lines 155, 231
NoonOf(d) == [d EXCEPT !.ms = MsNoon]

\* str(datetime): the ISO text of the object, its offset written out
StrOf(d) == [d EXCEPT !.form = "text", !.zone = IF d.zone = "none" THEN "none" ELSE "offset"]

\* dateutil.parser.parse: a TypeError for what is no text, a ValueError for
\* text that is no date; an offset of zero comes back as tzutc, any other
\* offset as tzoffset
parse(x) ==
    IF x.form # "text" THEN Raise("TypeError", "parser")
    ELSE IF ~x.ok THEN Raise("ValueError", "parser")
    ELSE OkTime([x EXCEPT !.form = "datetime",
                          !.zone = IF x.zone = "offset" /\ x.off = 0 THEN "utc" ELSE x.zone])

----------------------------------------------------------------------------
(* math.cos, math.sin, math.acos at whole degrees *)

RoundDeg(a) == (a + 5000) \div 10000

CosDeg(d) ==
    LET r == Abs(d) % 360
        s == IF r > 180 THEN 360 - r ELSE r
    IN  IF s <= 90 THEN CosTab[s + 1] ELSE -CosTab[180 - s + 1]

SinDeg(d) == CosDeg(d - 90)

\* math.degrees(math.acos(q)), to the whole degree above
ACosDeg(q) ==
    CHOOSE d \in 0..180 : CosDeg(d) <= q /\ (d = 0 \/ CosDeg(d - 1) > q)

----------------------------------------------------------------------------
(* The methods of Solar_Geometry.  Each gives what its caller gets; the     *)
(* object is the state (attrs, has).                                        *)

SnapshotFields ==
    <<"day_number", "B", "G_on", "E", "solar_time", "declination",
      "hour_angle", "zenith", "altitude">>

\* lines 13-22: the defaults, updated by the keyword arguments (of the four
\* fields); a default the caller did not override raises Warning out of the
\* constructor
Solar_Geometry_init(kw) ==
    LET missing == {k \in DOMAIN kw : ~kw[k].given}
        dict == [G_sc |-> IF kw.G_sc.given THEN kw.G_sc.v ELSE G_sc_default,
                 latitude |-> IF kw.latitude.given THEN kw.latitude.v ELSE latitude_default,
                 longitude |-> IF kw.longitude.given THEN kw.longitude.v ELSE longitude_default,
                 local_standard_time |->
                     IF kw.local_standard_time.given THEN kw.local_standard_time.t
                     ELSE Text(2019, 121, MsNoon, "offset", -28800),
                 day_number |-> 0, B |-> 0, G_on |-> 0, E |-> 0, solar_time |-> NoStamp,
                 declination |-> 0, hour_angle |-> 0, zenith |-> 0, altitude |-> 0]
    IN  [dict |-> dict,
         ret |-> IF missing # {} THEN Raise("Warning", "default") ELSE [NoRet EXCEPT !.st = "ok"]]

\* lines 39-42
calculate_day_number_from_date(date_str) ==
    LET p == parse(date_str)
    IN  IF p.st = "raise"
        THEN IF p.exc = "ValueError" THEN Raise("ValueError", "date_str") ELSE p
        ELSE OkNum(p.time.yday)

\* lines 50-58: the day number calculate_B goes on with.  The range check is
\* the elif of the isinstance test: it is made on an integer argument only.
DayNumberOf(n) ==
    LET n0 == IF n.given THEN n ELSE Num(attrs.day_number)
    IN  IF ~n.given /\ "day_number" \notin has THEN Raise("AttributeError", "day_number")
        ELSE IF n0.t.form # "none"
        THEN LET d == calculate_day_number_from_date(n0.t)
             IN  IF d.st = "raise" /\ d.exc = "ValueError"
                 THEN Raise("ValueError", "date string") ELSE d
        ELSE IF n0.v <= 0 \/ n0.v >= 366 THEN Raise("ValueError", "day number")
        ELSE OkNum(n0.v)

\* line 59
calculate_B(n) ==
    LET d == DayNumberOf(n)
    IN  IF d.st = "raise" THEN d ELSE OkNum(((d.num - 1) * 3600000) \div 365)

\* lines 67-75, in mW/m2
calculate_G_on_W_m2(n) ==
    LET d == DayNumberOf(n)
    IN  IF d.st = "raise" THEN d ELSE OkNum((attrs.G_sc * MultTab[d.num]) \div 1000)

\* lines 81-89
calculate_E(n) ==
    LET d == DayNumberOf(n)
    IN  IF d.st = "raise" THEN d ELSE OkNum(ETab[d.num])

\* lines 134-144
calculate_declination_degrees(n) ==
    LET d == DayNumberOf(n)
    IN  IF d.st = "raise" THEN d ELSE OkNum(DeclTab[d.num])

\* lines 105, 174: the coordinate tests
LongitudeInRange(longitude) == ~(longitude < 0 \/ longitude > 3600000)
LatitudeInRange(latitude) == ~(latitude < -900000 \/ latitude > 900000)

HasTzOffset_unchecked(local_ts) == TRUE

\* lines 114, 220: isinstance(local_ts.tzinfo, tzoffset)
HasTzOffset(local_ts) == local_ts.zone = "offset"

\* lines 119-123 and 225-229: utc_offset floors to whole hours
LongitudeCorrectionMs(local_ts, longitude) ==
    LET utc_offset == local_ts.off \div 3600
        standard_meridian == 15 * Abs(utc_offset)
    IN  MsPerDeg4 * (standard_meridian * 10000 - longitude)

\* lines 116, 222: the advisory about a date that is today's
Advise(r, local_ts, today) ==
    [r EXCEPT !.warn = (<<local_ts.year, local_ts.yday>> = today)]

\* lines 99-125
calculate_solar_time(local_standard_time, longitude, today) ==
    LET lst == IF local_standard_time.given THEN local_standard_time.t
               ELSE attrs.local_standard_time
        lon == IF longitude.given THEN longitude.v ELSE attrs.longitude
        p == parse(lst)
        E == calculate_E(Stamp(lst))
    IN  IF ~LongitudeInRange(lon) THEN Raise("ValueError", "longitude")
        ELSE IF p.st = "raise" THEN p
        ELSE IF ~HasTzOffset(p.time) THEN Raise("ValueError", "time zone offset")
        ELSE IF E.st = "raise" THEN Advise(E, p.time, today)
        ELSE Advise(OkTime(AddMs(p.time, LongitudeCorrectionMs(p.time, lon) + E.num)),
                    p.time, today)

\* lines 153-164
calculate_hour_angle_degrees(solar_time) ==
    LET t == IF solar_time.given THEN solar_time.t ELSE attrs.solar_time
    IN  IF ~solar_time.given /\ "solar_time" \notin has
        THEN Raise("AttributeError", "solar_time")
        ELSE IF t.form # "datetime" THEN Raise("AttributeError", "date")
        ELSE OkNum((t.ms - NoonOf(t).ms) \div MsPerDeg4)

\* lines 182-184
ZenithFormula(latitude, declination, hour_angle) ==
    LET la == RoundDeg(latitude)
        de == RoundDeg(declination)
        ha == RoundDeg(hour_angle)
        c  == ((((CosDeg(la) * CosDeg(de)) \div 10000) * CosDeg(ha)) \div 10000)
              + ((SinDeg(la) * SinDeg(de)) \div 10000)
    IN  IF Abs(c) > 10000 THEN Raise("ValueError", "math domain error")
        ELSE OkNum(ACosDeg(c) * 10000)

\* lines 168-184
calculate_solar_zenith_degrees(solar_time, latitude) ==
    LET t == IF solar_time.given THEN solar_time.t ELSE attrs.solar_time
        lat == IF latitude.given THEN latitude.v ELSE attrs.latitude
        n == calculate_day_number_from_date(t)
        declination == calculate_declination_degrees(Num(n.num))
        p == parse(t)
        hour_angle == calculate_hour_angle_degrees(Stamp(p.time))
    IN  IF ~solar_time.given /\ "solar_time" \notin has
        THEN Raise("AttributeError", "solar_time")
        ELSE IF ~LatitudeInRange(lat) THEN Raise("ValueError", "latitude")
        ELSE IF n.st = "raise" THEN n
        ELSE IF declination.st = "raise" THEN declination
        ELSE IF p.st = "raise" THEN p
        ELSE IF hour_angle.st = "raise" THEN hour_angle
        ELSE ZenithFormula(lat, declination.num, hour_angle.num)

\* lines 188-191
calculate_solar_altitude_degrees(solar_time, latitude) ==
    LET t == IF solar_time.given THEN solar_time ELSE Stamp(attrs.solar_time)
        lat == IF latitude.given THEN latitude ELSE Num(attrs.latitude)
        z == calculate_solar_zenith_degrees(t, lat)
    IN  IF ~solar_time.given /\ "solar_time" \notin has
        THEN Raise("AttributeError", "solar_time")
        ELSE IF z.st = "raise" THEN z
        ELSE OkNum(900000 - z.num)

SimpleAirMass_below70(solar_zenith_degrees) == solar_zenith_degrees < 700000

\* line 194: the branch of calculate_air_mass
SimpleAirMass(solar_zenith_degrees) == solar_zenith_degrees <= 700000

\* line 195
SecantAirMass(solar_zenith_degrees) ==
    100000000 \div CosDeg(RoundDeg(solar_zenith_degrees))

\* lines 199-201
CorrectedAirMass(solar_zenith_degrees, site_altitude_m) ==
    LET z == RoundDeg(solar_zenith_degrees)
    IN  (ExpTab[site_altitude_m \div 1000 + 1] * 10000) \div (CosDeg(z) + PowTab[z - 69])

\* lines 194-201
calculate_air_mass(solar_zenith_degrees, site_altitude_m) ==
    IF SimpleAirMass(solar_zenith_degrees)
    THEN OkNum(SecantAirMass(solar_zenith_degrees))
    ELSE IF ~site_altitude_m.given THEN Raise("ValueError", "site altitude")
    ELSE OkNum(CorrectedAirMass(solar_zenith_degrees, site_altitude_m.v))

\* lines 205-212.  hour_angle / abs(hour_angle) is evaluated first; the
\* quotient under acos divides by sin(zenith) * cos(latitude), which as a
\* float is zero at a zenith of 0 only.  solar_zenith falls back on an
\* attribute nothing sets, declination on a bound method.
calculate_solar_azimuth_degrees(hour_angle, solar_zenith, latitude, declination) ==
    LET h   == IF hour_angle.given THEN hour_angle.v ELSE attrs.hour_angle
        la  == RoundDeg(IF latitude.given THEN latitude.v ELSE attrs.latitude)
        z   == RoundDeg(solar_zenith.v)
        de  == RoundDeg(declination.v)
        num == ((CosDeg(z) * SinDeg(la)) \div 10000) - SinDeg(de)
        den == (SinDeg(z) * CosDeg(la)) \div 10000
        q   == (num * 10000) \div den
    IN  IF ~hour_angle.given /\ "hour_angle" \notin has
        THEN Raise("AttributeError", "hour_angle")
        ELSE IF ~solar_zenith.given THEN Raise("AttributeError", "solar_zenith_degrees")
        ELSE IF h = 0 THEN Raise("ZeroDivisionError", "division by zero")
        ELSE IF ~declination.given THEN Raise("TypeError", "radians")
        ELSE IF solar_zenith.v = 0 THEN Raise("ZeroDivisionError", "division by zero")
        ELSE IF den = 0 \/ Abs(q) > 10000 THEN Raise("ValueError", "math domain error")
        ELSE OkNum((IF h < 0 THEN -1 ELSE 1) * ACosDeg(q) * 10000)

\* lines 216-240: the longitude is not tested here
calculate_solar_noon_in_local_standard_time(local_standard_time, longitude, today) ==
    LET lst == IF local_standard_time.given THEN local_standard_time.t
               ELSE attrs.local_standard_time
        lon == IF longitude.given THEN longitude.v ELSE attrs.longitude
        p == parse(lst)
        E == calculate_E(Stamp(lst))
    IN  IF p.st = "raise" THEN p
        ELSE IF ~HasTzOffset(p.time) THEN Raise("ValueError", "time zone offset")
        ELSE IF E.st = "raise" THEN Advise(E, p.time, today)
        ELSE Advise(OkTime(AddMs(NoonOf(p.time),
                                 -(E.num + LongitudeCorrectionMs(p.time, lon)))),
                    p.time, today)

----------------------------------------------------------------------------
(* What the callers pass *)

DefaultText == Text(2019, 121, MsNoon, "offset", -28800)
NoOffsetText == Text(2019, 121, MsNoon, "none", 0)
UtcText == Text(2019, 121, MsNoon, "utc", 0)
HalfHourText == Text(2019, 121, 0, "offset", 19800)
YearEndText == Text(2019, 365, MsNoon, "offset", -28800)
LeapEndText == Text(2020, 366, MsNoon, "offset", -28800)

Texts == {DefaultText, NoOffsetText, UtcText, HalfHourText, YearEndText, LeapEndText, Garbage}
Todays == {<<2019, 121>>, <<2026, 1>>}

Longitudes == {-1, 0, longitude_default, 3100000, 3600000, 3600001}
Latitudes == {-900001, -900000, latitude_default, 900000, 900001}
DayNumbers == {0, 1, 121, 365, 366}
Zeniths == {0, 300000, 699999, 700000, 700001, 800000, 950000}
SiteAltitudes == {0, 1000, 2000}
HourAngles == {-150000, 0, 150000}
Declinations == {-230000, 0, 150000}

Opt(S) == {None} \cup {Num(v) : v \in S}
OptText(S) == {None} \cup {Stamp(t) : t \in S}

\* the keyword arguments of a construction: any subset of the four fields,
\* at most one of them with a value that is not the default's
KwValues ==
    [G_sc : Opt({G_sc_default}),
     latitude : Opt({latitude_default, 900001}),
     longitude : Opt({longitude_default, 3600001}),
     local_standard_time : OptText({DefaultText, NoOffsetText, LeapEndText})]

KwDefaults ==
    [G_sc |-> Num(G_sc_default), latitude |-> Num(latitude_default),
     longitude |-> Num(longitude_default), local_standard_time |-> Stamp(DefaultText)]

KwArgs ==
    {kw \in KwValues :
        Cardinality({k \in DOMAIN kw : kw[k].given /\ kw[k] # KwDefaults[k]}) <= 1}

----------------------------------------------------------------------------
(* The state machine *)

Init ==
    /\ alive = FALSE
    /\ attrs = Solar_Geometry_init([k \in {"G_sc", "latitude", "longitude",
                                           "local_standard_time"} |-> None]).dict
    /\ has = {}
    /\ pc = "idle"
    /\ pass = "none"
    /\ passes = 0
    /\ order = <<>>
    /\ earlyRead = FALSE
    /\ op = ""
    /\ arg = <<>>
    /\ ret = NoRet

\* Solar_Geometry(**kw): the caller holds the new object only when the
\* constructor returns
Construct(kw) ==
    LET made == Solar_Geometry_init(kw)
    IN  /\ pc = "idle"
        /\ op' = "__init__"
        /\ arg' = <<kw.G_sc, kw.latitude, kw.longitude, kw.local_standard_time>>
        /\ ret' = made.ret
        /\ IF made.ret.st = "ok"
           THEN /\ alive' = TRUE
                /\ attrs' = made.dict
                /\ has' = {}
                /\ pass' = "none"
                /\ passes' = 0
                /\ order' = <<>>
                /\ earlyRead' = FALSE
           ELSE UNCHANGED <<alive, attrs, has, pass, passes, order, earlyRead>>
        /\ UNCHANGED pc

Range(s) == {s[i] : i \in DOMAIN s}

\* lines 243-251: the snapshot attributes each statement reads
StageReads(f) ==
    CASE f \in {"B", "G_on", "E", "declination"} -> {"day_number"}
      [] f \in {"hour_angle", "zenith", "altitude"} -> {"solar_time"}
      [] OTHER -> {}

\* lines 243-251: the call each statement makes
StageCall(f, today) ==
    CASE f = "day_number" -> calculate_day_number_from_date(attrs.local_standard_time)
      [] f = "B" -> calculate_B(Num(attrs.day_number))
      [] f = "G_on" -> calculate_G_on_W_m2(Num(attrs.day_number))
      [] f = "E" -> calculate_E(Num(attrs.day_number))
      [] f = "solar_time" ->
            calculate_solar_time(Stamp(attrs.local_standard_time), Num(attrs.longitude), today)
      [] f = "declination" -> calculate_declination_degrees(Num(attrs.day_number))
      [] f = "hour_angle" -> calculate_hour_angle_degrees(Stamp(attrs.solar_time))
      [] f = "zenith" ->
            calculate_solar_zenith_degrees(Stamp(attrs.solar_time), Num(attrs.latitude))
      [] f = "altitude" ->
            calculate_solar_altitude_degrees(Stamp(attrs.solar_time), Num(attrs.latitude))

StageResult(f, today) ==
    IF \E a \in StageReads(f) : a \notin has
    THEN Raise("AttributeError", "snapshot")
    ELSE StageCall(f, today)

NextStage(f) ==
    LET i == CHOOSE j \in DOMAIN SnapshotFields : SnapshotFields[j] = f
    IN  IF i = Len(SnapshotFields) THEN "idle" ELSE SnapshotFields[i + 1]

\* One statement of calculate_all_attributes (lines 243-251): the call, and
\* the assignment to the object when the call returns.  An exception leaves
\* the method at once, with the object as the earlier statements left it.
Step(today) ==
    LET f == IF pc = "idle" THEN SnapshotFields[1] ELSE pc
        sofar == IF pc = "idle" THEN <<>> ELSE order
        r == StageResult(f, today)
    IN  /\ alive
        /\ pc = "idle" => passes < MaxPasses
        /\ passes' = IF pc = "idle" THEN passes + 1 ELSE passes
        /\ earlyRead' = ((pc # "idle" /\ earlyRead) \/ ~(StageReads(f) \subseteq Range(sofar)))
        /\ op' = "calculate_all_attributes"
        /\ arg' = <<>>
        /\ IF r.st = "raise"
           THEN /\ pc' = "idle"
                /\ pass' = "failed"
                /\ ret' = r
                /\ order' = sofar
                /\ UNCHANGED <<attrs, has>>
           ELSE /\ attrs' = [attrs EXCEPT ![f] = IF f = "solar_time" THEN r.time ELSE r.num]
                /\ has' = has \cup {f}
                /\ order' = Append(sofar, f)
                /\ pc' = NextStage(f)
                /\ pass' = IF NextStage(f) = "idle" THEN "done" ELSE "running"
                /\ ret' = IF NextStage(f) = "idle" THEN [NoRet EXCEPT !.st = "ok"] ELSE NoRet
        /\ UNCHANGED alive

\* A method called on the object from outside the driver.  These methods
\* leave the object as it is, so what one returns does not depend on the
\* calls made before it: each is taken from a state in which the object has
\* just been constructed or updated.
Call(name, args, result) ==
    /\ alive
    /\ pc = "idle"
    /\ op \in {"__init__", "calculate_all_attributes"}
    /\ op' = name
    /\ arg' = args
    /\ ret' = result
    /\ UNCHANGED <<alive, attrs, has, pc, pass, passes, order, earlyRead>>

CallDayNumber(t) ==
    Call("calculate_day_number_from_date", <<Stamp(t)>>, calculate_day_number_from_date(t))

CallB(n) == Call("calculate_B", <<n>>, calculate_B(n))

CallGon(n) == Call("calculate_G_on_W_m2", <<n>>, calculate_G_on_W_m2(n))

CallE(n) == Call("calculate_E", <<n>>, calculate_E(n))

CallDeclination(n) ==
    Call("calculate_declination_degrees", <<n>>, calculate_declination_degrees(n))

CallSolarTime(t, lon, today) ==
    Call("calculate_solar_time", <<t, lon>>, calculate_solar_time(t, lon, today))

CallSolarNoon(t, lon, today) ==
    Call("calculate_solar_noon_in_local_standard_time", <<t, lon>>,
         calculate_solar_noon_in_local_standard_time(t, lon, today))

CallHourAngle(t) ==
    Call("calculate_hour_angle_degrees", <<t>>, calculate_hour_angle_degrees(t))

CallZenith(t, lat) ==
    Call("calculate_solar_zenith_degrees", <<t, lat>>, calculate_solar_zenith_degrees(t, lat))

CallAltitude(t, lat) ==
    Call("calculate_solar_altitude_degrees", <<t, lat>>,
         calculate_solar_altitude_degrees(t, lat))

CallAirMass(z, alt) ==
    Call("calculate_air_mass", <<Num(z), alt>>, calculate_air_mass(z, alt))

CallAzimuth(h, z, lat, d) ==
    Call("calculate_solar_azimuth_degrees", <<h, z, lat, d>>,
         calculate_solar_azimuth_degrees(h, z, lat, d))

\* calculate_solar_time applied to what
\* calculate_solar_noon_in_local_standard_time returned (a datetime), with
\* the same longitude; asText: the caller passes str() of it instead
SolarTimeOfSolarNoon(t, lon, today, asText) ==
    LET noon == calculate_solar_noon_in_local_standard_time(t, lon, today)
        back == IF asText THEN StrOf(noon.time) ELSE noon.time
    IN  IF noon.st = "raise" THEN noon
        ELSE calculate_solar_time(Stamp(back), lon, today)

CallRoundTrip(t, lon, today, asText) ==
    Call(IF asText THEN "solar_time_of_str_of_solar_noon" ELSE "solar_time_of_solar_noon",
         <<t, lon>>, SolarTimeOfSolarNoon(t, lon, today, asText))

DateTimes == {parse(t).time : t \in {DefaultText, NoOffsetText}}

Next ==
    \/ \E kw \in KwArgs : Construct(kw)
    \/ \E today \in Todays : Step(today)
    \/ \E t \in Texts : CallDayNumber(t)
    \/ \E n \in Opt(DayNumbers) \cup OptText(Texts) : CallB(n)
    \/ \E n \in Opt(DayNumbers) \cup OptText(Texts) : CallGon(n)
    \/ \E n \in Opt(DayNumbers) \cup OptText(Texts) : CallE(n)
    \/ \E n \in Opt(DayNumbers) \cup OptText(Texts) : CallDeclination(n)
    \/ \E t \in OptText(Texts), lon \in Opt(Longitudes), today \in Todays :
          CallSolarTime(t, lon, today)
    \/ \E t \in OptText(Texts), lon \in Opt(Longitudes), today \in Todays :
          CallSolarNoon(t, lon, today)
    \/ \E t \in OptText(DateTimes \cup {DefaultText}) : CallHourAngle(t)
    \/ \E t \in OptText(Texts), lat \in Opt(Latitudes) : CallZenith(t, lat)
    \/ \E t \in OptText(Texts), lat \in Opt(Latitudes) : CallAltitude(t, lat)
    \/ \E z \in Zeniths, alt \in Opt(SiteAltitudes) : CallAirMass(z, alt)
    \/ \E h \in Opt(HourAngles), z \in Opt({0, 300000, 800000}),
          lat \in Opt({0, latitude_default}), d \in Opt(Declinations) :
          CallAzimuth(h, z, lat, d)
    \/ \E t \in Texts, lon \in Longitudes, today \in Todays, asText \in BOOLEAN :
          CallRoundTrip(Stamp(t), Num(lon), today, asText)

Spec == Init /\ [][Next]_vars

----------------------------------------------------------------------------
(* Properties *)

AllFields == Range(SnapshotFields)
\* calculate_all_attributes has just returned or raised
PassEnded == op = "calculate_all_attributes" /\ pc = "idle" /\ pass \in {"done", "failed"}
IsPrefix(s, t) == Len(s) <= Len(t) /\ \A i \in DOMAIN s : s[i] = t[i]

\* the coordinate and the timestamp a two-argument call works on
EffLongitude == IF arg[2].given THEN arg[2].v ELSE attrs.longitude
EffLatitude == IF arg[2].given THEN arg[2].v ELSE attrs.latitude
EffText == IF arg[1].given THEN arg[1].t ELSE attrs.local_standard_time

\* a configuration no stage has a reason to refuse
ConfigAccepted ==
    /\ LatitudeInRange(attrs.latitude)
    /\ LongitudeInRange(attrs.longitude)
    /\ attrs.local_standard_time.ok
    /\ attrs.local_standard_time.zone = "offset"
    /\ attrs.local_standard_time.off # 0
    /\ attrs.local_standard_time.yday \in 1..365

\* The driver writes the snapshot fields in the order of SnapshotFields, none
\* twice in a pass, and reads none before the pass wrote it.
DriverWritesInOrder ==
    /\ IsPrefix(order, SnapshotFields)
    /\ ~earlyRead
    /\ Range(order) \subseteq has

\* C1: in every execution of calculate_all_attributes the snapshot fields
\* are written in the order day_number, B, G_on, E, solar_time, declination,
\* hour_angle, zenith, altitude, each exactly once, and no stage reads a
\* field the pass has not written.  Stated for the executions on a
\* configuration every stage accepts: when such a pass has ended, all nine
\* fields have been written, once each and in that order.
C1_EachFieldWrittenOnceInOrder ==
    /\ DriverWritesInOrder
    /\ (PassEnded /\ ConfigAccepted) => order = SnapshotFields

\* C2: with latitude in [-90,90], longitude in [0,360] and a timestamp that
\* carries an explicit UTC offset (here: on a day the Spencer formulas take,
\* 1..365), a pass of calculate_all_attributes ends without an error, with
\* all nine fields set, day_number the timestamp's day of the year and
\* altitude = 90 - zenith.
C2_PassCompletes ==
    (PassEnded /\ ConfigAccepted)
    => /\ pass = "done"
       /\ ret.st = "ok"
       /\ has = AllFields
       /\ attrs.day_number = attrs.local_standard_time.yday
       /\ attrs.altitude = 900000 - attrs.zenith

\* C3: a pass that fails stops at the failing stage, hands that stage's
\* error to the caller, and leaves none of the fields it wrote on the object.
C3_NoPartialSnapshot ==
    (PassEnded /\ pass = "failed")
    => /\ ret.st = "raise"
       /\ Len(order) < Len(SnapshotFields)
       /\ Range(order) \cap has = {}

\* The three methods that test their coordinate do so before anything else
\* that can fail on an argument.
CoordinateTestedFirst ==
    /\ (op = "calculate_solar_time" /\ ~LongitudeInRange(EffLongitude))
       => ret = Raise("ValueError", "longitude")
    /\ (/\ op \in {"calculate_solar_zenith_degrees", "calculate_solar_altitude_degrees"}
        /\ arg[1].given
        /\ ~LatitudeInRange(EffLatitude))
       => ret = Raise("ValueError", "latitude")

\* C4: calculate_solar_time, calculate_solar_noon_in_local_standard_time,
\* calculate_solar_zenith_degrees and calculate_solar_altitude_degrees fail
\* (with ValueError, the class of the code's range errors) when the longitude
\* is outside [0,360] or the latitude outside [-90,90], whatever the
\* timestamp is, and return no value computed from such a coordinate.
C4_OutOfRangeCoordinateRaises ==
    /\ (/\ op \in {"calculate_solar_time", "calculate_solar_noon_in_local_standard_time"}
        /\ ~LongitudeInRange(EffLongitude))
       => (ret.st = "raise" /\ ret.exc = "ValueError")
    /\ (/\ op \in {"calculate_solar_zenith_degrees", "calculate_solar_altitude_degrees"}
        /\ arg[1].given
        /\ ~LatitudeInRange(EffLatitude))
       => (ret.st = "raise" /\ ret.exc = "ValueError")

\* C5: with a longitude in [0,360], calculate_solar_time and
\* calculate_solar_noon_in_local_standard_time raise a ValueError about the
\* timestamp, and return no timestamp, whenever the text of the local
\* timestamp has no UTC offset.
C5_MissingOffsetRaises ==
    (/\ op \in {"calculate_solar_time", "calculate_solar_noon_in_local_standard_time"}
     /\ LongitudeInRange(EffLongitude)
     /\ EffText.form = "text"
     /\ EffText.zone = "none")
    => /\ ret.st = "raise"
       /\ ret.exc = "ValueError"
       /\ ret.msg = (IF EffText.ok THEN "time zone offset" ELSE "parser")
       /\ ret.time = NoStamp

C5_Witness ==
    /\ op = "calculate_solar_noon_in_local_standard_time"
    /\ arg = <<Stamp(NoOffsetText), Num(longitude_default)>>
    /\ ret = Raise("ValueError", "time zone offset")

\* C6: for a longitude in [0,360] and a timestamp t with an explicit UTC
\* offset, calculate_solar_time applied (same longitude) to the result of
\* calculate_solar_noon_in_local_standard_time(t) returns 12:00 on the date
\* of t at the offset of t.
C6_RoundTripIsNoon ==
    (/\ op \in {"solar_time_of_solar_noon", "solar_time_of_str_of_solar_noon"}
     /\ LongitudeInRange(arg[2].v)
     /\ arg[1].t.ok
     /\ arg[1].t.zone = "offset")
    => /\ ret.st = "ok"
       /\ ret.time = NoonOf(parse(arg[1].t).time)

\* C7: calculate_B raises the range error for every integer <= 0 or >= 366,
\* succeeds for every integer in 1..365, and the day number it derives from a
\* date string also lies in 1..365: the B it returns is that of such a day.
C7_DayNumbersAre1To365 ==
    (op = "calculate_B" /\ arg[1].given)
    => IF arg[1].t.form = "none"
       THEN IF arg[1].v <= 0 \/ arg[1].v >= 366
            THEN ret.st = "raise" /\ ret.exc = "ValueError" /\ ret.msg = "day number"
            ELSE ret.st = "ok" /\ ret.num = ((arg[1].v - 1) * 3600000) \div 365
       ELSE ret.st = "ok" => ret.num \in {((k - 1) * 3600000) \div 365 : k \in 1..365}

\* C8: constructing the configuration succeeds for every subset of the four
\* fields the caller supplies; a field not supplied holds its default, a
\* supplied one the supplied value.
C8_ConstructionAcceptsDefaults ==
    op = "__init__"
    => /\ ret.st = "ok"
       /\ alive
       /\ attrs.G_sc = (IF arg[1].given THEN arg[1].v ELSE G_sc_default)
       /\ attrs.latitude = (IF arg[2].given THEN arg[2].v ELSE latitude_default)
       /\ attrs.longitude = (IF arg[3].given THEN arg[3].v ELSE longitude_default)
       /\ attrs.local_standard_time = (IF arg[4].given THEN arg[4].t ELSE DefaultText)

\* C9: calculate_solar_azimuth_degrees with hour_angle = 0, or with
\* sin(zenith) * cos(latitude) = 0, returns an azimuth or raises a dedicated
\* domain error: it never ends in a division by zero.
C9_AzimuthNeverDividesByZero ==
    (/\ op = "calculate_solar_azimuth_degrees"
     /\ \A i \in 1..4 : arg[i].given
     /\ (arg[1].v = 0 \/ arg[2].v = 0))
    => ret.exc # "ZeroDivisionError"

\* C10: calculate_air_mass returns 1/cos(zenith) for every zenith <= 70
\* degrees (70 included), with or without a site altitude; for a zenith > 70
\* it raises the missing-altitude error when no site altitude is given and
\* returns the altitude-corrected value when one is; the missing-altitude
\* error is raised for no zenith <= 70.
C10_AirMassBranches ==
    op = "calculate_air_mass"
    => LET z == arg[1].v
           alt == arg[2]
       IN  /\ z <= 700000 => ret = OkNum(SecantAirMass(z))
           /\ (z > 700000 /\ ~alt.given) => ret = Raise("ValueError", "site altitude")
           /\ (z > 700000 /\ alt.given) => ret = OkNum(CorrectedAirMass(z, alt.v))
           /\ ret.msg = "site altitude" => z > 700000

C10_Witness ==
    /\ op = "calculate_air_mass"
    /\ arg = <<Num(700000), None>>
    /\ ret.st = "ok"
    /\ ret.num = 29239
====
